---------------------------- MODULE Spec2Model ----------------------------
(***************************************************************************)
(* A model of terraform-provider-emaildns: the DKIM key-record parser      *)
(* (internal/provider/dkim_parser.go) and the three data sources that      *)
(* validate DKIM, SPF and DMARC TXT records at plan time.                  *)
(*                                                                         *)
(* Text is a sequence of one-character strings, a byte is a number in      *)
(* 0..255.  A Go pointer or error that may be nil is a sequence of length  *)
(* at most one: <<>> is nil.                                               *)
(***************************************************************************)
EXTENDS Integers, Sequences, FiniteSets, TLC

VARIABLES
    segs,      \* the segments of the record under construction (indices into Catalog)
    record,    \* the record text handed to the operation, <<>> before a call
    lexed,     \* what parseDKIMParams returned: [params, err]
    unknown,   \* TRUE when the configured record value is unknown at plan time
    pc,        \* "build" | "lexed" | "parsed" | "validated" | "read"
    source,    \* which data source / parser acted: "dkim" | "spf" | "dmarc" | "none"
    result,    \* what ParseDKIM returned: [rec, err]
    diags,     \* resp.Diagnostics of the last ValidateConfig / Read
    state      \* resp.State of the last Read (<<>> when not set)

vars == <<segs, record, lexed, unknown, pc, source, result, diags, state>>

-----------------------------------------------------------------------------
(* Text helpers (Go's strings package).                                    *)

\* unicode.IsSpace restricted to the ASCII white space the inputs use
WhiteSpace == {" ", "\t", "\n", "\r"}

RECURSIVE SkipLeft(_, _)
SkipLeft(s, i) ==
    IF i > Len(s) \/ s[i] \notin WhiteSpace THEN i ELSE SkipLeft(s, i + 1)

RECURSIVE SkipRight(_, _)
SkipRight(s, i) ==
    IF i < 1 \/ s[i] \notin WhiteSpace THEN i ELSE SkipRight(s, i - 1)

\* strings.TrimSpace
TrimSpace(s) == SubSeq(s, SkipLeft(s, 1), SkipRight(s, Len(s)))

\* the members of a finite set of numbers in increasing order
Ascending(S) ==
    [k \in 1..Cardinality(S) |-> CHOOSE x \in S : Cardinality({y \in S : y < x}) = k - 1]

\* strings.Split(s, sep) for a one-character separator: the pieces between
\* the occurrences of sep
Split(s, sep) ==
    LET cuts == Ascending({i \in 1..Len(s) : s[i] = sep})
        n == Len(cuts)
    IN [k \in 1..(n + 1) |->
           SubSeq(s, IF k = 1 THEN 1 ELSE cuts[k - 1] + 1,
                     IF k = n + 1 THEN Len(s) ELSE cuts[k] - 1)]

\* strings.Index(s, c), 1-based; 0 stands for Go's -1
Index(s, c) ==
    LET at == {i \in 1..Len(s) : s[i] = c}
    IN IF at = {} THEN 0 ELSE CHOOSE i \in at : \A j \in at : i <= j

\* strings.ReplaceAll(s, old, "") for a one-character old
RemoveAll(s, old) == SelectSeq(s, LAMBDA c : c # old)

-----------------------------------------------------------------------------
(* Tag names and tag values the parser compares against.                   *)

TagV == <<"v">>
TagK == <<"k">>
TagP == <<"p">>
TagH == <<"h">>
TagS == <<"s">>
TagT == <<"t">>
TagN == <<"n">>
DKIM1 == <<"D", "K", "I", "M", "1">>
Rsa == <<"r", "s", "a">>
Ed25519 == <<"e", "d", "2", "5", "5", "1", "9">>

\* an error value: its kind (the site that made it), whether it is wrapped by
\* ParseDKIM's "failed to parse DKIM record: " prefix, and the text and the
\* number the message quotes
Error(kind, text, num) == [kind |-> kind, wrapped |-> FALSE, text |-> text, num |-> num]
Wrap(e) == [e EXCEPT !.wrapped = TRUE]

\* MapPut that keeps the value a key already has
MapPutKeepFirst(m, key, value) ==
    [x \in (DOMAIN m) \cup {key} |-> IF x \in DOMAIN m THEN m[x] ELSE value]

\* params[key] = value
MapPut(m, key, value) ==
    [x \in (DOMAIN m) \cup {key} |-> IF x = key THEN value ELSE m[x]]

EmptyMap == [x \in {} |-> <<>>]

\* the body of parseDKIMParams's loop from pair i on
RECURSIVE ParamsLoop(_, _, _)

\* ParamsLoop that skips a pair without '=' as it skips an empty one
ParamsLoopSkipBare(pairs, i, params) ==
    IF i > Len(pairs) THEN [params |-> params, err |-> <<>>]
    ELSE LET pair == TrimSpace(pairs[i]) IN
         IF pair = <<>> \/ Index(pair, "=") = 0 THEN ParamsLoop(pairs, i + 1, params)
         ELSE LET idx == Index(pair, "=")
                  key == TrimSpace(SubSeq(pair, 1, idx - 1))
                  value == TrimSpace(SubSeq(pair, idx + 1, Len(pair)))
              IN IF key = <<>>
                 THEN [params |-> EmptyMap, err |-> <<Error("EmptyTagName", <<>>, 0)>>]
                 ELSE ParamsLoop(pairs, i + 1, MapPut(params, key, value))

ParamsLoop(pairs, i, params) ==
    IF i > Len(pairs) THEN [params |-> params, err |-> <<>>]
    ELSE LET pair == TrimSpace(pairs[i]) IN
         IF pair = <<>> THEN ParamsLoop(pairs, i + 1, params)
         ELSE LET idx == Index(pair, "=") IN
              IF idx = 0
              THEN [params |-> EmptyMap, err |-> <<Error("MalformedTag", pair, 0)>>]
              ELSE LET key == TrimSpace(SubSeq(pair, 1, idx - 1))
                       value == TrimSpace(SubSeq(pair, idx + 1, Len(pair)))
                   IN IF key = <<>>
                      THEN [params |-> EmptyMap, err |-> <<Error("EmptyTagName", <<>>, 0)>>]
                      ELSE ParamsLoop(pairs, i + 1, MapPut(params, key, value))

parseDKIMParams(s) == ParamsLoop(Split(s, ";"), 1, EmptyMap)

\* parseTagList: the non-empty trimmed parts of a colon-separated list
parseTagList(s) ==
    LET parts == Split(s, ":")
        trimmed == [i \in 1..Len(parts) |-> TrimSpace(parts[i])]
    IN SelectSeq(trimmed, LAMBDA p : p # <<>>)

-----------------------------------------------------------------------------
(* encoding/base64: StdEncoding.DecodeString.                              *)

B64Chars ==
    <<"A", "B", "C", "D", "E", "F", "G", "H", "I", "J", "K", "L", "M",
      "N", "O", "P", "Q", "R", "S", "T", "U", "V", "W", "X", "Y", "Z",
      "a", "b", "c", "d", "e", "f", "g", "h", "i", "j", "k", "l", "m",
      "n", "o", "p", "q", "r", "s", "t", "u", "v", "w", "x", "y", "z",
      "0", "1", "2", "3", "4", "5", "6", "7", "8", "9", "+", "/">>

B64Alphabet == {B64Chars[i] : i \in 1..Len(B64Chars)}

\* the 6-bit value of an alphabet character
B64Val == [c \in B64Alphabet |-> (CHOOSE i \in 1..Len(B64Chars) : B64Chars[i] = c) - 1]

\* the decoder skips '\r' and '\n' wherever they stand
B64Skipped == {"\r", "\n"}

\* the number of trailing '=' of t, at most two
B64Pad(t) ==
    IF Len(t) >= 1 /\ t[Len(t)] = "="
    THEN (IF Len(t) >= 2 /\ t[Len(t) - 1] = "=" THEN 2 ELSE 1)
    ELSE 0

\* whether DecodeString accepts s: after dropping '\r' and '\n', whole quanta
\* of four alphabet characters, the last one alone padded with one or two '='
B64Valid(s) ==
    LET t == SelectSeq(s, LAMBDA c : c \notin B64Skipped)
        pad == B64Pad(t)
    IN /\ Len(t) % 4 = 0
       /\ \A i \in 1..(Len(t) - pad) : t[i] \in B64Alphabet

\* the bytes DecodeString returns for an accepted s
B64Bytes(s) ==
    LET t == SelectSeq(s, LAMBDA c : c \notin B64Skipped)
        pad == B64Pad(t)
        val(i) == IF t[i] = "=" THEN 0 ELSE B64Val[t[i]]
        byte(j) ==
            LET q == 4 * (j \div 3)
                r == j % 3
            IN IF r = 0 THEN val(q + 1) * 4 + val(q + 2) \div 16
               ELSE IF r = 1 THEN (val(q + 2) % 16) * 16 + val(q + 3) \div 4
               ELSE (val(q + 3) % 4) * 64 + val(q + 4)
    IN [j \in 1..(3 * (Len(t) \div 4) - pad) |-> byte(j - 1)]

\* base64.StdEncoding.DecodeString: the bytes, or an error
DecodeString(s) ==
    IF B64Valid(s) THEN [bytes |-> B64Bytes(s), err |-> FALSE]
    ELSE [bytes |-> <<>>, err |-> TRUE]

-----------------------------------------------------------------------------
(* crypto/x509 and encoding/asn1, as far as ParseDKIM depends on them: DER  *)
(* tag-length-value reading, the two RSA public key encodings and the      *)
(* Ed25519 public-key-info.  Other algorithms' object identifiers are      *)
(* rejected as unknown.                                                    *)

NoTLV == [ok |-> FALSE, tag |-> 0, from |-> 1, to |-> 0]

\* the DER element starting at b[i]: its tag and the span from..to of its content
ReadTLV(b, i) ==
    IF i + 1 > Len(b) THEN NoTLV
    ELSE LET l0 == b[i + 1] IN
         IF l0 < 128
         THEN (IF i + 1 + l0 <= Len(b)
               THEN [ok |-> TRUE, tag |-> b[i], from |-> i + 2, to |-> i + 1 + l0]
               ELSE NoTLV)
         ELSE IF l0 = 129
         THEN (IF i + 2 <= Len(b) /\ b[i + 2] >= 128 /\ i + 2 + b[i + 2] <= Len(b)
               THEN [ok |-> TRUE, tag |-> b[i], from |-> i + 3, to |-> i + 2 + b[i + 2]]
               ELSE NoTLV)
         ELSE IF l0 = 130
         THEN (IF /\ i + 3 <= Len(b)
                  /\ b[i + 2] > 0
                  /\ i + 3 + b[i + 2] * 256 + b[i + 3] <= Len(b)
               THEN [ok |-> TRUE, tag |-> b[i], from |-> i + 4,
                     to |-> i + 3 + b[i + 2] * 256 + b[i + 3]]
               ELSE NoTLV)
         ELSE NoTLV

\* the number of significant bits of a byte
ByteBitLen(x) == CHOOSE k \in 0..8 : x < 2 ^ k /\ (k = 0 \/ x >= 2 ^ (k - 1))

\* whether c is a minimally encoded, strictly positive DER INTEGER
PositiveInt(c) ==
    /\ Len(c) >= 1
    /\ c[1] < 128
    /\ (Len(c) > 1 /\ c[1] = 0) => c[2] >= 128
    /\ ~(Len(c) = 1 /\ c[1] = 0)

\* big.Int.BitLen of a positive DER INTEGER
BitLen(c) ==
    IF c[1] = 0 THEN (Len(c) - 1) * 8 ELSE (Len(c) - 1) * 8 + ByteBitLen(c[1])

NoKey == <<>>
RsaKey(bits) == <<[alg |-> "rsa", bits |-> bits, len |-> 0]>>
Ed25519Key(len) == <<[alg |-> "ed25519", bits |-> 0, len |-> len]>>

\* SEQUENCE { modulus INTEGER, publicExponent INTEGER } filling b exactly
RsaPublicKeyStruct(b) ==
    LET seq == ReadTLV(b, 1) IN
    IF ~(seq.ok /\ seq.tag = 48 /\ seq.to = Len(b)) THEN NoKey
    ELSE LET body == SubSeq(b, seq.from, seq.to)
             n == ReadTLV(body, 1)
         IN IF ~(n.ok /\ n.tag = 2) THEN NoKey
            ELSE LET e == ReadTLV(body, n.to + 1) IN
                 IF ~(e.ok /\ e.tag = 2 /\ e.to = Len(body)) THEN NoKey
                 ELSE LET N == SubSeq(body, n.from, n.to)
                          E == SubSeq(body, e.from, e.to)
                      IN IF PositiveInt(N) /\ PositiveInt(E) /\ Len(E) <= 4
                         THEN RsaKey(BitLen(N))
                         ELSE NoKey

\* x509.ParsePKCS1PublicKey
ParsePKCS1PublicKey(b) == RsaPublicKeyStruct(b)

OidRsaEncryption == <<6, 9, 42, 134, 72, 134, 247, 13, 1, 1, 1>>
OidEd25519 == <<6, 3, 43, 101, 112>>
AsnNull == <<5, 0>>

\* x509.ParsePKIXPublicKey:
\* SEQUENCE { SEQUENCE { algorithm OID, parameters }, subjectPublicKey BIT STRING }
ParsePKIXPublicKey(b) ==
    LET seq == ReadTLV(b, 1) IN
    IF ~(seq.ok /\ seq.tag = 48 /\ seq.to = Len(b)) THEN NoKey
    ELSE LET body == SubSeq(b, seq.from, seq.to)
             alg == ReadTLV(body, 1)
         IN IF ~(alg.ok /\ alg.tag = 48) THEN NoKey
            ELSE LET bits == ReadTLV(body, alg.to + 1) IN
                 IF ~(/\ bits.ok
                      /\ bits.tag = 3
                      /\ bits.to = Len(body)
                      /\ bits.to >= bits.from
                      /\ body[bits.from] = 0)
                 THEN NoKey
                 ELSE LET ident == SubSeq(body, alg.from, alg.to)
                          key == SubSeq(body, bits.from + 1, bits.to)
                      IN IF ident = OidRsaEncryption \o AsnNull
                         THEN RsaPublicKeyStruct(key)
                         ELSE IF ident = OidEd25519 /\ Len(key) = 32
                         THEN Ed25519Key(Len(key))
                         ELSE NoKey

\* rsa.PublicKey.Size: the modulus size in bytes, (N.BitLen() + 7) / 8
Size(pub) == (pub.bits + 7) \div 8
TestKeyText ==
    <<"M", "I", "G", "f", "M", "A", "0", "G", "C", "S", "q", "G", "S", "I", "b", "3", "D", "Q",
      "E", "B", "A", "Q", "U", "A", "A", "4", "G", "N", "A", "D", "C", "B", "i", "Q", "K", "B",
      "g", "Q", "D", "H", "U", "i", "g", "N", "m", "W", "X", "W", "Q", "U", "1", "x", "M", "a",
      "O", "c", "4", "X", "q", "1", "L", "1", "L", "o", "8", "y", "8", "q", "F", "z", "q", "Z",
      "6", "r", "Q", "N", "L", "z", "b", "+", "j", "3", "Y", "w", "j", "B", "w", "E", "H", "C",
      "9", "o", "N", "W", "c", "X", "q", "r", "A", "q", "s", "B", "g", "B", "f", "J", "m", "C",
      "7", "B", "D", "L", "0", "x", "6", "I", "d", "C", "a", "N", "E", "y", "L", "3", "Q", "3",
      "K", "v", "Q", "Z", "P", "k", "s", "L", "L", "z", "q", "N", "5", "I", "a", "M", "T", "W",
      "Y", "h", "E", "7", "b", "X", "4", "k", "8", "H", "K", "k", "A", "W", "r", "J", "J", "V",
      "a", "Q", "a", "X", "W", "7", "/", "H", "m", "A", "K", "8", "Y", "8", "h", "t", "T", "P",
      "x", "C", "m", "K", "J", "H", "Q", "I", "8", "V", "3", "d", "W", "H", "/", "J", "O", "o",
      "q", "3", "B", "l", "J", "Z", "u", "2", "e", "2", "2", "Q", "I", "D", "A", "Q", "A", "B">>
-----------------------------------------------------------------------------
(* ParseDKIM (dkim_parser.go).                                             *)

\* RFC 8301 floor on the RSA modulus, in bits
MinRsaBits == 1024

\* ed25519.PublicKeySize
PublicKeySize == 32

\* _, ok := params[tag]
Has(params, tag) == tag \in DOMAIN params

\* params[tag]: the empty string when the tag is absent
Get(params, tag) == IF tag \in DOMAIN params THEN params[tag] ELSE <<>>

\* HasKey with ok ignored: an absent p reads as the empty string
HasKeyUnchecked(params) == TRUE

\* p, ok := params["p"]
HasKey(params) == Has(params, TagP)

\* the zero DKIMRecord with the default key type
NewRecord ==
    [KeyType |-> Rsa, PublicKey |-> <<>>, HashAlgorithms |-> <<>>,
     Services |-> <<>>, Flags |-> <<>>, Notes |-> <<>>, IsRevoked |-> FALSE]

Fail(e) == [rec |-> <<>>, err |-> <<e>>]
Ok(rec) == [rec |-> <<rec>>, err |-> <<>>]

\* VersionOk taking an absent v tag for a wrong version
VersionOkRequired(params) == Get(params, TagV) = DKIM1

\* the version check: a v tag, when present, must be exactly DKIM1
VersionOk(params) == ~(Has(params, TagV) /\ Get(params, TagV) # DKIM1)

\* the white space removed from a non-empty p before it is decoded
StripKey(p) == RemoveAll(p, " ")

\* the bit size compared against the floor
KeyBits(pub) == Size(pub) * 8

\* the key type the switch dispatches on
KeyTypeOf(params) == IF Has(params, TagK) THEN Get(params, TagK) ELSE Rsa

\* the checks on the key the decoders returned: there is one, it is an RSA
\* key, of at least the floor
CheckRsaKey(rec, pub) ==
    IF pub = NoKey THEN Fail(Error("InvalidKeyEncoding", <<>>, 0))
    ELSE IF pub[1].alg # "rsa" THEN Fail(Error("KeyAlgorithmMismatch", <<>>, 0))
    ELSE IF KeyBits(pub[1]) < MinRsaBits
         THEN Fail(Error("KeyTooShort", <<>>, KeyBits(pub[1])))
         ELSE Ok([rec EXCEPT !.KeyType = Rsa])

\* OrPKCS1 that also tries the PKCS#1 decoder when the PKIX key is not RSA
OrPKCS1UnlessRsa(pkix, b) ==
    IF pkix # NoKey /\ pkix[1].alg = "rsa" THEN pkix ELSE ParsePKCS1PublicKey(b)

\* the PKCS#1 decoder is tried when the PKIX decoder returned an error
OrPKCS1(pkix, b) == IF pkix # NoKey THEN pkix ELSE ParsePKCS1PublicKey(b)

\* ValidateRsa without the PKCS#1 fallback
ValidateRsaPkixOnly(rec, b) == CheckRsaKey(rec, ParsePKIXPublicKey(b))

\* case "rsa", "": PKIX first, then PKCS#1; an RSA key of at least the floor
ValidateRsa(rec, b) == CheckRsaKey(rec, OrPKCS1(ParsePKIXPublicKey(b), b))

\* ValidateEd25519 rejecting only keys that are too short
ValidateEd25519AtLeast(rec, b) ==
    IF Len(b) < PublicKeySize THEN Fail(Error("InvalidKeySize", <<>>, Len(b)))
    ELSE Ok(rec)

\* case "ed25519": the decoded key has the fixed size
ValidateEd25519(rec, b) ==
    IF Len(b) # PublicKeySize THEN Fail(Error("InvalidKeySize", <<>>, Len(b)))
    ELSE Ok(rec)

\* the else branch of "if p == \"\"": strip, decode, key type, key validation
\* the checks after base64 decoding: the decoder's error, then the switch on
\* the key type
ValidateDecoded(rec, p, dec, keyType) ==
    IF dec.err THEN Fail(Error("InvalidBase64", <<>>, 0))
    ELSE IF keyType \in {Rsa, <<>>}
    THEN ValidateRsa([rec EXCEPT !.PublicKey = p, !.KeyType = keyType], dec.bytes)
    ELSE IF keyType = Ed25519
    THEN ValidateEd25519([rec EXCEPT !.PublicKey = p, !.KeyType = keyType], dec.bytes)
    ELSE Fail(Error("UnsupportedKeyType", keyType, 0))

\* the stripped p is stored, decoded and checked
ValidateStripped(rec, p, params) ==
    ValidateDecoded(rec, p, DecodeString(p), KeyTypeOf(params))

ValidateKey(rec, params) == ValidateStripped(rec, StripKey(Get(params, TagP)), params)

\* PublicKeyStep without the revocation branch
PublicKeyStepNoRevocation(rec, params) == ValidateKey(rec, params)

\* the p tag: empty means revoked, anything else is validated as a key
PublicKeyStep(rec, params) ==
    IF Get(params, TagP) = <<>>
    THEN Ok([rec EXCEPT !.IsRevoked = TRUE, !.PublicKey = <<>>])
    ELSE ValidateKey(rec, params)

\* the h, s, t and n tags
OptionalTags(rec, params) ==
    [rec EXCEPT
        !.HashAlgorithms = IF Has(params, TagH) THEN parseTagList(Get(params, TagH)) ELSE @,
        !.Services = IF Has(params, TagS) THEN parseTagList(Get(params, TagS)) ELSE @,
        !.Flags = IF Has(params, TagT) THEN parseTagList(Get(params, TagT)) ELSE @,
        !.Notes = IF Has(params, TagN) THEN Get(params, TagN) ELSE @]

\* the end of ParseDKIM: the key step's error, or the record with its optional
\* tags
WithOptionalTags(key, params) ==
    IF key.err # <<>> THEN key ELSE Ok(OptionalTags(key.rec[1], params))

\* ParseDKIM after the lexer returned lx
ParseLexed(lx) ==
    IF lx.err # <<>> THEN Fail(Wrap(lx.err[1]))
    ELSE IF ~VersionOk(lx.params) THEN Fail(Error("UnsupportedVersion", <<>>, 0))
    ELSE IF ~HasKey(lx.params) THEN Fail(Error("MissingPublicKey", <<>>, 0))
    ELSE WithOptionalTags(PublicKeyStep(NewRecord, lx.params), lx.params)

ParseDKIM(s) == ParseLexed(parseDKIMParams(s))
-----------------------------------------------------------------------------
(* The records the parser is run on.  A record is a list of segments joined *)
(* by ';'.  Each segment is drawn from Catalog, which describes it (the tag *)
(* name, the value as intended, the padding written around name and value, *)
(* and for a p tag the key the value encodes) so that the parser's answer  *)
(* can be compared with what was put into the text.                        *)

\* a DER length
DerLen(n) ==
    IF n < 128 THEN <<n>>
    ELSE IF n < 256 THEN <<129, n>>
    ELSE <<130, n \div 256, n % 256>>

\* a DER element
Der(tag, content) == <<tag>> \o DerLen(Len(content)) \o content

\* the content of a DER INTEGER holding an odd number of exactly `bits` bits
ModulusInt(bits) ==
    LET n == (bits + 7) \div 8
        top == 2 ^ ((bits - 1) % 8)
        raw == [i \in 1..n |-> IF i = 1 THEN (IF n = 1 THEN top + 1 - (top % 2) ELSE top)
                               ELSE IF i = n THEN 1 + 2 * ((i * 37) % 128)
                               ELSE (i * 37) % 256]
    IN IF top >= 128 THEN <<0>> \o raw ELSE raw

\* RSAPublicKey (PKCS#1) with exponent 65537
DerPkcs1(bits) == Der(48, Der(2, ModulusInt(bits)) \o Der(2, <<1, 0, 1>>))

\* SubjectPublicKeyInfo (PKIX) around an RSAPublicKey
DerPkixRsa(bits) ==
    Der(48, Der(48, OidRsaEncryption \o AsnNull) \o Der(3, <<0>> \o DerPkcs1(bits)))

\* len raw key bytes
RawKey(len) == [i \in 1..len |-> (i * 59) % 256]

\* SubjectPublicKeyInfo (PKIX) around a 32-byte Ed25519 key
DerPkixEd25519 == Der(48, Der(48, OidEd25519) \o Der(3, <<0>> \o RawKey(32)))

\* base64.StdEncoding.EncodeToString
B64Encode(b) ==
    LET n == Len(b)
        byte(j) == IF j < n THEN b[j + 1] ELSE 0
        char(k) ==
            LET g == 3 * (k \div 4)
                r == k % 4
            IN IF r = 0 THEN B64Chars[byte(g) \div 4 + 1]
               ELSE IF r = 1 THEN B64Chars[(byte(g) % 4) * 16 + byte(g + 1) \div 16 + 1]
               ELSE IF r = 2
                    THEN (IF g + 1 >= n THEN "="
                          ELSE B64Chars[(byte(g + 1) % 16) * 4 + byte(g + 2) \div 64 + 1])
               ELSE (IF g + 2 >= n THEN "=" ELSE B64Chars[(byte(g + 2) % 64) + 1])
    IN [k \in 1..(4 * ((n + 2) \div 3)) |-> char(k - 1)]

\* where white space is written inside a key
WsAt == 4

\* s with the character c written after its first WsAt characters
InsertWs(s, c) == SubSeq(s, 1, WsAt) \o <<c>> \o SubSeq(s, WsAt + 1, Len(s))

\* what a p value encodes: cls is rsa | ed25519 | garbage | notb64 | none,
\* enc is pkix | pkcs1 | raw, bits the modulus size, len the decoded length,
\* ws the white space written inside the value ("" for none), clean the
\* value without it
NoKd == [cls |-> "none", enc |-> "-", bits |-> 0, len |-> 0, ws |-> "", clean |-> <<>>]

Kd(cls, enc, bits, der, ws) ==
    [cls |-> cls, enc |-> enc, bits |-> bits, len |-> Len(der), ws |-> ws,
     clean |-> B64Encode(der)]

RsaKd(enc, bits, ws) ==
    Kd("rsa", enc, bits, IF enc = "pkix" THEN DerPkixRsa(bits) ELSE DerPkcs1(bits), ws)

\* a segment: form is tag (name = value) or bare (no '='); val has no white
\* space at its ends; list holds the items of a colon-separated value
Tag(key, val, pad) ==
    [form |-> "tag", key |-> key, val |-> val, pad |-> pad, kd |-> NoKd, list |-> <<>>]

\* a tag whose value lists `items`, separated by `sep`
RECURSIVE JoinItems(_, _, _)
JoinItems(items, sep, i) ==
    IF i > Len(items) THEN <<>>
    ELSE IF i = Len(items) THEN items[i]
    ELSE items[i] \o sep \o JoinItems(items, sep, i + 1)

ListTag(key, items, sep, pad) ==
    [Tag(key, JoinItems(items, sep, 1), pad) EXCEPT !.list = items]

KeyTag(pad, kd) ==
    [Tag(TagP, IF kd.ws = "" THEN kd.clean ELSE InsertWs(kd.clean, kd.ws), pad)
        EXCEPT !.kd = kd]

Bare(val, pad) == [Tag(<<>>, val, pad) EXCEPT !.form = "bare"]

Sha1 == <<"s", "h", "a", "1">>
Sha256 == <<"s", "h", "a", "2", "5", "6">>
Email == <<"e", "m", "a", "i", "l">>

NotBase64Text ==
    <<"n", "o", "t", "-", "v", "a", "l", "i", "d", "-", "b", "a", "s", "e", "6", "4",
      "!", "!", "!">>

Catalog ==
    << Tag(TagV, DKIM1, <<>>),
       Tag(TagV, DKIM1, <<" ">>),
       Tag(TagV, <<"D", "K", "I", "M", "2">>, <<" ">>),
       Tag(TagV, <<"d", "k", "i", "m", "1">>, <<>>),
       Tag(TagK, Rsa, <<" ">>),
       Tag(TagK, Ed25519, <<"\t">>),
       Tag(TagK, <<"d", "s", "a">>, <<>>),
       Tag(TagK, <<>>, <<>>),
       Tag(TagP, <<>>, <<" ">>),
       [Tag(TagP, TestKeyText, <<" ">>) EXCEPT
           !.kd = [cls |-> "rsa", enc |-> "pkix", bits |-> 1024, len |-> 162,
                   ws |-> "", clean |-> TestKeyText]],
       KeyTag(<<>>, RsaKd("pkcs1", 1024, "")),
       KeyTag(<<" ">>, RsaKd("pkix", 1023, "")),
       KeyTag(<<>>, RsaKd("pkcs1", 1017, "")),
       KeyTag(<<>>, RsaKd("pkix", 1016, "")),
       KeyTag(<<" ">>, RsaKd("pkcs1", 1025, "")),
       KeyTag(<<>>, Kd("ed25519", "raw", 0, RawKey(32), "")),
       KeyTag(<<>>, Kd("ed25519", "raw", 0, RawKey(31), "")),
       KeyTag(<<" ">>, Kd("ed25519", "pkix", 0, DerPkixEd25519, "")),
       [Tag(TagP, NotBase64Text, <<" ">>) EXCEPT
           !.kd = [NoKd EXCEPT !.cls = "notb64", !.clean = NotBase64Text]],
       KeyTag(<<>>, Kd("garbage", "raw", 0, <<0, 1, 2>>, "")),
       KeyTag(<<>>, RsaKd("pkix", 1024, " ")),
       KeyTag(<<>>, RsaKd("pkcs1", 1024, "\t")),
       KeyTag(<<" ">>, RsaKd("pkix", 1024, "\n")),
       ListTag(TagH, <<Sha1, Sha256>>, <<" ", ":", ":", "\t">>, <<>>),
       ListTag(TagS, <<Email>>, <<":">>, <<" ">>),
       ListTag(TagT, <<<<"y">>, <<"s">>>>, <<":">>, <<>>),
       Tag(TagN, <<"a", " ", "=", "b">>, <<" ">>),
       Bare(<<"j", "u", "n", "k">>, <<" ">>),
       Tag(<<>>, <<"x">>, <<" ">>),
       Bare(<<>>, <<" ">>),
       Bare(<<>>, <<>>) >>

SegText(d) ==
    IF d.form = "bare" THEN d.pad \o d.val \o d.pad
    ELSE d.pad \o d.key \o d.pad \o <<"=">> \o d.pad \o d.val \o d.pad

RECURSIVE Join(_, _)
Join(ds, i) ==
    IF i > Len(ds) THEN <<>>
    ELSE IF i = Len(ds) THEN SegText(Catalog[ds[i]])
    ELSE SegText(Catalog[ds[i]]) \o <<";">> \o Join(ds, i + 1)

\* the record text of a list of segments
Render(ds) == Join(ds, 1)

\* the catalog's version segments: a record is at most MaxTags segments, after
\* an optional leading version segment
VersionSegs == {i \in 1..Len(Catalog) : Catalog[i].form = "tag" /\ Catalog[i].key = TagV}

MaxTags == 2

Room(ds) ==
    Len(ds) < MaxTags + (IF ds # <<>> /\ ds[1] \in VersionSegs THEN 1 ELSE 0)

-----------------------------------------------------------------------------
(* The state machine: a record is put together, then parsed.               *)

NoResult == [rec |-> <<>>, err |-> <<>>]
NoLex == [params |-> EmptyMap, err |-> <<>>]

Init ==
    /\ segs = <<>>
    /\ record = <<>>
    /\ lexed = NoLex
    /\ unknown = FALSE
    /\ pc = "build"
    /\ source = "none"
    /\ result = NoResult
    /\ diags = <<>>
    /\ state = <<>>

\* one more segment is written to the record
AppendSegment ==
    /\ pc = "build"
    /\ Room(segs)
    /\ \E c \in 1..Len(Catalog) : segs' = Append(segs, c)
    /\ UNCHANGED <<record, lexed, unknown, pc, source, result, diags, state>>

\* ParseDKIM is called on the record
CallParseDKIM ==
    /\ pc = "build"
    /\ record' = Render(segs)
    /\ result' = ParseDKIM(record')
    /\ pc' = "parsed"
    /\ source' = "dkim"
    /\ UNCHANGED <<segs, lexed, unknown, diags, state>>

\* the tag lexer is called on the record
CallParseDKIMParams ==
    /\ pc = "build"
    /\ record' = Render(segs)
    /\ lexed' = parseDKIMParams(record')
    /\ pc' = "lexed"
    /\ source' = "dkim"
    /\ UNCHANGED <<segs, unknown, result, diags, state>>

Next == AppendSegment \/ CallParseDKIMParams \/ CallParseDKIM

Spec == Init /\ [][Next]_vars

-----------------------------------------------------------------------------
(* The external grammar parsers, github.com/wttw/spf and                   *)
(* github.com/emersion/go-msgauth/dmarc.  An SPF or DMARC record is a list *)
(* of terms; each parser is modelled on the terms of its table: what a     *)
(* term is, whether the parser accepts it, and what it returns for it.     *)

\* an spf.Mechanism value: its dynamic type (variant), what String() returns,
\* and the DomainSpec and Net fields of the variants that have them
Mechanism(variant, str, domainSpec, net) ==
    [variant |-> variant, str |-> str, DomainSpec |-> domainSpec, Net |-> net]

NoMechanism == Mechanism("", <<>>, <<>>, <<>>)

DomainE == <<"e", ".", "x">>
Net4 == <<"1", "9", "2", ".", "0", ".", "2", ".", "0", "/", "2", "4">>
Net6 == <<"2", "0", "0", "1", ":", "d", "b", "8", ":", ":", "/", "3", "2">>

\* kind is version | mechanism | redirect | invalid
SpfTerm(text, kind, mech, redirect) ==
    [text |-> text, kind |-> kind, mech |-> mech, redirect |-> redirect]

\* the last two mechanisms are of a type the classifier does not list (a later
\* version of the library, or a pointer to one of the listed types)
SpfTerms ==
    << SpfTerm("v=spf1", "version", NoMechanism, <<>>),
       SpfTerm("include:e.x", "mechanism",
               Mechanism("MechanismInclude",
                         <<"i", "n", "c", "l", "u", "d", "e", ":">> \o DomainE,
                         DomainE, <<>>), <<>>),
       SpfTerm("+a", "mechanism",
               Mechanism("MechanismA", <<"+", "a">>, <<>>, <<>>), <<>>),
       SpfTerm("a:e.x", "mechanism",
               Mechanism("MechanismA", <<"a", ":">> \o DomainE, DomainE, <<>>), <<>>),
       SpfTerm("?mx", "mechanism",
               Mechanism("MechanismMX", <<"?", "m", "x">>, <<>>, <<>>), <<>>),
       SpfTerm("ip4:192.0.2.0/24", "mechanism",
               Mechanism("MechanismIp4", <<"i", "p", "4", ":">> \o Net4, <<>>, Net4),
               <<>>),
       SpfTerm("-ip6:2001:db8::/32", "mechanism",
               Mechanism("MechanismIp6", <<"-", "i", "p", "6", ":">> \o Net6, <<>>, Net6),
               <<>>),
       SpfTerm("exists:e.x", "mechanism",
               Mechanism("MechanismExists",
                         <<"e", "x", "i", "s", "t", "s", ":">> \o DomainE, DomainE, <<>>),
               <<>>),
       SpfTerm("~ptr:e.x", "mechanism",
               Mechanism("MechanismPTR", <<"~", "p", "t", "r", ":">> \o DomainE,
                         DomainE, <<>>), <<>>),
       SpfTerm("-all", "mechanism",
               Mechanism("MechanismAll", <<"-", "a", "l", "l">>, <<>>, <<>>), <<>>),
       SpfTerm("redirect=e.x", "redirect", NoMechanism, DomainE),
       SpfTerm("ip4:999.0.2.0/24", "invalid", NoMechanism, <<>>),
       SpfTerm("-x:e.x", "mechanism",
               Mechanism("other", <<"-", "x", ":">> \o DomainE, DomainE, <<>>), <<>>),
       SpfTerm("x", "mechanism", Mechanism("other", <<>>, <<>>, <<>>), <<>>) >>

SpfTermOf(text) == CHOOSE i \in 1..Len(SpfTerms) : SpfTerms[i].text = text

\* the mechanisms of a record, in the order written
RECURSIVE MechanismsOf(_, _)
MechanismsOf(rec, i) ==
    IF i > Len(rec) THEN <<>>
    ELSE LET t == SpfTerms[SpfTermOf(rec[i])]
         IN (IF t.kind = "mechanism" THEN <<t.mech>> ELSE <<>>) \o MechanismsOf(rec, i + 1)

NoSPF == [Mechanisms |-> <<>>, Redirect |-> <<>>]

\* spf.ParseSPF: the record starts with v=spf1, every further term is a
\* well-formed mechanism or modifier, redirect occurs at most once
ParseSPF(rec) ==
    LET term(i) == SpfTerms[SpfTermOf(rec[i])]
        redirects == {i \in 1..Len(rec) : term(i).kind = "redirect"}
    IN IF rec = <<>> \/ term(1).kind # "version"
       THEN [ok |-> FALSE, err |-> <<Error("spf: no v=spf1", <<>>, 0)>>, parsed |-> NoSPF]
       ELSE IF \E i \in 2..Len(rec) : term(i).kind \in {"version", "invalid"}
       THEN [ok |-> FALSE, err |-> <<Error("spf: invalid term", <<>>, 0)>>, parsed |-> NoSPF]
       ELSE IF Cardinality(redirects) > 1
       THEN [ok |-> FALSE, err |-> <<Error("spf: duplicate redirect", <<>>, 0)>>,
             parsed |-> NoSPF]
       ELSE [ok |-> TRUE, err |-> <<>>,
             parsed |-> [Mechanisms |-> MechanismsOf(rec, 1),
                         Redirect |-> IF redirects = {} THEN <<>>
                                      ELSE term(CHOOSE i \in redirects : TRUE).redirect]]

\* name is the tag name, value its value, valid whether the grammar allows it
DmarcTerm(text, name, value, valid) ==
    [text |-> text, name |-> name, value |-> value, valid |-> valid]

DmarcTerms ==
    << DmarcTerm("v=DMARC1", "v", "DMARC1", TRUE),
       DmarcTerm("p=reject", "p", "reject", TRUE),
       DmarcTerm("p=rejectt", "p", "rejectt", FALSE),
       DmarcTerm("rua=mailto:dmarc@example.com", "rua", "mailto:dmarc@example.com", TRUE),
       DmarcTerm("pct=100", "pct", "100", TRUE),
       DmarcTerm("pct=101", "pct", "101", FALSE) >>

DmarcTermOf(text) == CHOOSE i \in 1..Len(DmarcTerms) : DmarcTerms[i].text = text

\* the record of a version and nothing else: no sp, pct, rua or ruf tag, and
\* the relaxed alignment the grammar gives an absent adkim or aspf tag
NoDMARC ==
    [Policy |-> "", SubdomainPolicy |-> "", DKIMAlignment |-> "r", SPFAlignment |-> "r",
     Percent |-> <<>>, ReportURIAggregate |-> <<>>, ReportURIFailure |-> <<>>]

\* dmarc.Parse: v=DMARC1 and a policy are required, every value must be valid
\* (of a tag written twice the last one counts); of the record it returns, the
\* fields the terms of the table set
DmarcParse(rec) ==
    LET term(i) == DmarcTerms[DmarcTermOf(rec[i])]
        last(name) == {i \in 1..Len(rec) :
                          /\ term(i).name = name
                          /\ \A j \in (i + 1)..Len(rec) : term(j).name # name}
        lastValue(name) == term(CHOOSE i \in last(name) : TRUE).value
    IN IF last("v") = {}
       THEN [ok |-> FALSE, err |-> <<Error("dmarc: unsupported version", <<>>, 0)>>,
             parsed |-> NoDMARC]
       ELSE IF last("p") = {}
       THEN [ok |-> FALSE,
             err |-> <<Error("dmarc: record is missing a 'p' parameter", <<>>, 0)>>,
             parsed |-> NoDMARC]
       ELSE IF \E i \in last("p") : ~term(i).valid
       THEN [ok |-> FALSE,
             err |-> <<Error("dmarc: invalid policy for parameter 'p'", <<>>, 0)>>,
             parsed |-> NoDMARC]
       ELSE IF \E i \in last("pct") : ~term(i).valid
       THEN [ok |-> FALSE, err |-> <<Error("dmarc: invalid percentage", <<>>, 0)>>,
             parsed |-> NoDMARC]
       ELSE [ok |-> TRUE, err |-> <<>>,
             parsed |-> [NoDMARC EXCEPT
                            !.Policy = lastValue("p"),
                            !.Percent = IF last("pct") = {} THEN <<>>
                                        ELSE <<lastValue("pct")>>,
                            !.ReportURIAggregate =
                                IF last("rua") = {} THEN <<>> ELSE <<lastValue("rua")>>]]

-----------------------------------------------------------------------------
(* The data sources: ValidateConfig of the DKIM, SPF and DMARC data        *)
(* sources.  req.Config.Get fills the model without diagnostics: each      *)
(* model struct matches its schema field for field.                        *)

DataSources == {"dkim", "spf", "dmarc"}

MaxTerms == 3

\* resp.Diagnostics.AddError(summary, fmt.Sprintf(format, err.Error(), record)):
\* the detail quotes the error and, in ValidateConfig, the record
ErrorDiag(summary, err, rec) ==
    [severity |-> "error", summary |-> summary, err |-> err, record |-> rec]

\* the record text of a list of SPF or DMARC terms
TermTexts(terms, ds) == [i \in 1..Len(ds) |-> terms[ds[i]].text]

\* the configuration of a data source block starts empty, for one of the sources
InitDS ==
    /\ segs = <<>>
    /\ record = <<>>
    /\ lexed = NoLex
    /\ unknown = FALSE
    /\ pc = "build"
    /\ source \in DataSources
    /\ result = NoResult
    /\ diags = <<>>
    /\ state = <<>>

\* the record attribute refers to a value not known before apply (segs is the
\* value it has at apply)
ConfigureUnknown ==
    /\ pc = "build"
    /\ ~unknown
    /\ unknown' = TRUE
    /\ UNCHANGED <<segs, record, lexed, pc, source, result, diags, state>>

ConfigureDKIM == source = "dkim" /\ ~unknown /\ AppendSegment

ConfigureSPF ==
    /\ pc = "build"
    /\ source = "spf"
    /\ ~unknown
    /\ Len(segs) < MaxTerms
    /\ \E t \in 1..Len(SpfTerms) : segs' = Append(segs, t)
    /\ UNCHANGED <<record, lexed, unknown, pc, source, result, diags, state>>

\* ten include terms are written at once: a record over the limit of ten DNS
\* lookups of RFC 7208
ConfigureSPFIncludes ==
    /\ pc = "build"
    /\ source = "spf"
    /\ ~unknown
    /\ Len(segs) \in 1..MaxTerms
    /\ segs' = segs \o [i \in 1..10 |-> SpfTermOf("include:e.x")]
    /\ UNCHANGED <<record, lexed, unknown, pc, source, result, diags, state>>

ConfigureDMARC ==
    /\ pc = "build"
    /\ source = "dmarc"
    /\ ~unknown
    /\ Len(segs) < MaxTerms
    /\ \E t \in 1..Len(DmarcTerms) : segs' = Append(segs, t)
    /\ UNCHANGED <<record, lexed, unknown, pc, source, result, diags, state>>

\* what the handler adds to resp.Diagnostics: nothing for an unknown record,
\* one error when the parser returns an error
Validation(summary, isUnknown, err, rec) ==
    IF isUnknown THEN <<>>
    ELSE IF err # <<>> THEN <<ErrorDiag(summary, err[1], <<rec>>)>>
    ELSE <<>>

\* Validation without the IsUnknown check: an unknown value reads as ""
ValidateDKIMUnknownAsEmpty(isUnknown, rec) ==
    Validation("Invalid DKIM Record", FALSE, ParseDKIM(IF isUnknown THEN <<>> ELSE rec).err, rec)

ValidateDKIM(isUnknown, rec) ==
    Validation("Invalid DKIM Record", isUnknown, ParseDKIM(rec).err, rec)

ValidateSPF(isUnknown, rec) ==
    Validation("Invalid SPF Record", isUnknown, ParseSPF(rec).err, rec)

ValidateDMARC(isUnknown, rec) ==
    Validation("Invalid DMARC Record", isUnknown, DmarcParse(rec).err, rec)

\* DKIMDataSource.ValidateConfig
DKIMValidateConfig ==
    /\ pc = "build"
    /\ source = "dkim"
    /\ record' = Render(segs)
    /\ diags' = ValidateDKIM(unknown, record')
    /\ pc' = "validated"
    /\ UNCHANGED <<segs, lexed, unknown, source, result, state>>

\* SPFDataSource.ValidateConfig
SPFValidateConfig ==
    /\ pc = "build"
    /\ source = "spf"
    /\ record' = TermTexts(SpfTerms, segs)
    /\ diags' = ValidateSPF(unknown, record')
    /\ pc' = "validated"
    /\ UNCHANGED <<segs, lexed, unknown, source, result, state>>

\* DMARCDataSource.ValidateConfig
DMARCValidateConfig ==
    /\ pc = "build"
    /\ source = "dmarc"
    /\ record' = TermTexts(DmarcTerms, segs)
    /\ diags' = ValidateDMARC(unknown, record')
    /\ pc' = "validated"
    /\ UNCHANGED <<segs, lexed, unknown, source, result, state>>

\* formatMechanismA, formatMechanismMX: the domain, empty when there is none
formatMechanismA(m) == IF m.DomainSpec = <<>> THEN <<>> ELSE m.DomainSpec
formatMechanismMX(m) == IF m.DomainSpec = <<>> THEN <<>> ELSE m.DomainSpec

Classified(qualifier, mechType, value) ==
    [qualifier |-> qualifier, type |-> mechType, value |-> value]

\* parseMechanism that never looks for an explicit qualifier
parseMechanismDefaultQualifier(m) ==
    IF m.variant = "MechanismAll" THEN Classified("+", "all", <<>>)
    ELSE IF m.variant = "MechanismInclude" THEN Classified("+", "include", m.DomainSpec)
    ELSE IF m.variant = "MechanismA" THEN Classified("+", "a", formatMechanismA(m))
    ELSE IF m.variant = "MechanismMX" THEN Classified("+", "mx", formatMechanismMX(m))
    ELSE IF m.variant = "MechanismIp4" THEN Classified("+", "ip4", m.Net)
    ELSE IF m.variant = "MechanismIp6" THEN Classified("+", "ip6", m.Net)
    ELSE IF m.variant = "MechanismExists" THEN Classified("+", "exists", m.DomainSpec)
    ELSE IF m.variant = "MechanismPTR" THEN Classified("+", "ptr", m.DomainSpec)
    ELSE Classified("+", "unknown", m.str)

\* parseMechanism: the qualifier is the first character of m.String() when it
\* is one of + - ~ ?, the type and the value follow the mechanism's Go type
parseMechanism(m) ==
    LET explicit == Len(m.str) > 0 /\ m.str[1] \in {"+", "-", "~", "?"}
        qualifier == IF explicit THEN m.str[1] ELSE "+"
        str == IF explicit THEN Tail(m.str) ELSE m.str
    IN IF m.variant = "MechanismAll" THEN Classified(qualifier, "all", <<>>)
       ELSE IF m.variant = "MechanismInclude"
       THEN Classified(qualifier, "include", m.DomainSpec)
       ELSE IF m.variant = "MechanismA" THEN Classified(qualifier, "a", formatMechanismA(m))
       ELSE IF m.variant = "MechanismMX"
       THEN Classified(qualifier, "mx", formatMechanismMX(m))
       ELSE IF m.variant = "MechanismIp4" THEN Classified(qualifier, "ip4", m.Net)
       ELSE IF m.variant = "MechanismIp6" THEN Classified(qualifier, "ip6", m.Net)
       ELSE IF m.variant = "MechanismExists"
       THEN Classified(qualifier, "exists", m.DomainSpec)
       ELSE IF m.variant = "MechanismPTR" THEN Classified(qualifier, "ptr", m.DomainSpec)
       ELSE Classified(qualifier, "unknown", str)

\* RequiresLookup without the ptr mechanism
RequiresLookupNoPtr(mechType) == mechType \in {"include", "a", "mx", "exists"}

\* the mechanism types that require DNS lookups
RequiresLookup(mechType) == mechType \in {"include", "a", "mx", "ptr", "exists"}

\* the loop of SPFDataSource.Read over parsed.Mechanisms from mechanism i on
RECURSIVE MechanismLoop(_, _, _, _)
MechanismLoop(mechanisms, i, dnsLookupCount, mechanismValues) ==
    IF i > Len(mechanisms)
    THEN [dnsLookupCount |-> dnsLookupCount, mechanismValues |-> mechanismValues]
    ELSE LET mechObj == parseMechanism(mechanisms[i])
         IN MechanismLoop(mechanisms, i + 1,
                          IF RequiresLookup(mechObj.type) THEN dnsLookupCount + 1
                          ELSE dnsLookupCount,
                          Append(mechanismValues, mechObj))

\* RedirectLookups that leaves the redirect out of the count
RedirectLookupsNone(redirect) == 0

\* what a redirect modifier adds to the DNS lookup count
RedirectLookups(redirect) == IF redirect # <<>> THEN 1 ELSE 0

\* a nullable attribute: types.StringNull() for the empty string
StringOrNull(s) == IF s # <<>> THEN <<s>> ELSE <<>>

\* the state SPFDataSource.Read sets for a parsed record
SPFState(rec, parsed) ==
    LET loop == MechanismLoop(parsed.Mechanisms, 1, 0, <<>>)
    IN [Record |-> rec,
        Mechanisms |-> loop.mechanismValues,
        Redirect |-> StringOrNull(parsed.Redirect),
        DNSLookupCount |-> loop.dnsLookupCount + RedirectLookups(parsed.Redirect)]

\* convertStringSliceToList: the null list for an empty slice
convertStringSliceToList(slice) == IF Len(slice) = 0 THEN <<>> ELSE <<slice>>

\* the state DKIMDataSource.Read sets for a parsed record
DKIMState(rec, parsed) ==
    [Record |-> rec,
     KeyType |-> parsed.KeyType,
     IsRevoked |-> parsed.IsRevoked,
     PublicKey |-> StringOrNull(parsed.PublicKey),
     Notes |-> StringOrNull(parsed.Notes),
     HashAlgorithms |-> convertStringSliceToList(parsed.HashAlgorithms),
     Services |-> convertStringSliceToList(parsed.Services),
     Flags |-> convertStringSliceToList(parsed.Flags)]

\* the state DMARCDataSource.Read sets for a parsed record
DMARCState(rec, parsed) ==
    [Record |-> rec,
     Policy |-> parsed.Policy,
     SubdomainPolicy |-> IF parsed.SubdomainPolicy # "" THEN <<parsed.SubdomainPolicy>>
                         ELSE <<>>,
     DKIMAlignment |-> parsed.DKIMAlignment,
     SPFAlignment |-> parsed.SPFAlignment,
     Percent |-> parsed.Percent,
     ReportURIAggregate |-> convertStringSliceToList(parsed.ReportURIAggregate),
     ReportURIFailure |-> convertStringSliceToList(parsed.ReportURIFailure)]

\* what Read adds to resp.Diagnostics when the parser returns an error: one
\* error whose detail quotes the error
ReadError(summary, err) == <<ErrorDiag(summary, err, <<>>)>>

\* the response of a Read handler: the error and the state as it was when the
\* parser returned an error, the new state otherwise
ReadResponse(summary, err, old, new) ==
    IF err # <<>> THEN [diags |-> ReadError(summary, err[1]), state |-> old]
    ELSE [diags |-> <<>>, state |-> <<new>>]

DKIMReadResponse(rec, parsed, old) ==
    ReadResponse("Invalid DKIM Record", parsed.err, old,
                 IF parsed.rec # <<>> THEN DKIMState(rec, parsed.rec[1]) ELSE <<>>)

SPFReadResponse(rec, parsed, old) ==
    ReadResponse("Invalid SPF Record", parsed.err, old, SPFState(rec, parsed.parsed))

DMARCReadResponse(rec, parsed, old) ==
    ReadResponse("Invalid DMARC Record", parsed.err, old, DMARCState(rec, parsed.parsed))

\* Terraform reads a data source once its configuration passed validation and
\* its values are known
Readable == pc = "validated" /\ diags = <<>>

\* DKIMDataSource.Read
DKIMRead ==
    /\ Readable
    /\ source = "dkim"
    /\ record' = Render(segs)
    /\ result' = ParseDKIM(record')
    /\ diags' = DKIMReadResponse(record', result', state).diags
    /\ state' = DKIMReadResponse(record', result', state).state
    /\ pc' = "read"
    /\ UNCHANGED <<segs, lexed, unknown, source>>

\* SPFDataSource.Read
SPFRead ==
    /\ Readable
    /\ source = "spf"
    /\ record' = TermTexts(SpfTerms, segs)
    /\ diags' = SPFReadResponse(record', ParseSPF(record'), state).diags
    /\ state' = SPFReadResponse(record', ParseSPF(record'), state).state
    /\ pc' = "read"
    /\ UNCHANGED <<segs, lexed, unknown, source, result>>

\* DMARCDataSource.Read
DMARCRead ==
    /\ Readable
    /\ source = "dmarc"
    /\ record' = TermTexts(DmarcTerms, segs)
    /\ diags' = DMARCReadResponse(record', DmarcParse(record'), state).diags
    /\ state' = DMARCReadResponse(record', DmarcParse(record'), state).state
    /\ pc' = "read"
    /\ UNCHANGED <<segs, lexed, unknown, source, result>>

NextDS ==
    \/ ConfigureUnknown
    \/ ConfigureDKIM
    \/ ConfigureSPF
    \/ ConfigureSPFIncludes
    \/ ConfigureDMARC
    \/ DKIMValidateConfig
    \/ SPFValidateConfig
    \/ DMARCValidateConfig
    \/ DKIMRead
    \/ SPFRead
    \/ DMARCRead

SpecDS == InitDS /\ [][NextDS]_vars

-----------------------------------------------------------------------------
(* What was written into the record: the reading of the segment list that  *)
(* the properties compare the parser's answer with.                            *)

\* the positions of the segments that carry tag
Written(ds, tag) ==
    {i \in 1..Len(ds) : Catalog[ds[i]].form = "tag" /\ Catalog[ds[i]].key = tag}

Wrote(ds, tag) == Written(ds, tag) # {}

\* the last segment that carries tag
LastWritten(ds, tag) ==
    Catalog[ds[CHOOSE i \in Written(ds, tag) : \A j \in Written(ds, tag) : j <= i]]

\* a segment is malformed when it has text but no '=', or no name before '='
Malformed(d) == d.form = "bare" /\ d.val # <<>>
Nameless(d) == d.form = "tag" /\ d.key = <<>>
LexFails(ds) ==
    \E i \in 1..Len(ds) : Malformed(Catalog[ds[i]]) \/ Nameless(Catalog[ds[i]])

\* no v tag, or the last one reads exactly DKIM1
VersionPasses(ds) == ~Wrote(ds, TagV) \/ LastWritten(ds, TagV).val = DKIM1

\* no k tag, or the last one reads exactly rsa
KeyTypeRsa(ds) == ~Wrote(ds, TagK) \/ LastWritten(ds, TagK).val = Rsa

\* the key the last p tag encodes
KeyWritten(ds) == LastWritten(ds, TagP).kd

Parsed == pc = "parsed"
Succeeded == result.err = <<>> /\ result.rec # <<>>
Failed(kind) == result.rec = <<>> /\ result.err # <<>> /\ result.err[1].kind = kind

-----------------------------------------------------------------------------
(* The properties.                                                            *)

\* the case of C1: the record lexes, passes the version check, names key type
\* rsa or none, and its p is the base64 text of an RSA key of at least 1024
\* bits, in PKIX or PKCS#1 encoding, written unbroken or broken by spaces
C1_Case ==
    /\ Parsed
    /\ ~LexFails(segs)
    /\ VersionPasses(segs)
    /\ KeyTypeRsa(segs)
    /\ Wrote(segs, TagP)
    /\ KeyWritten(segs).cls = "rsa"
    /\ KeyWritten(segs).enc \in {"pkix", "pkcs1"}
    /\ KeyWritten(segs).bits >= 1024
    /\ KeyWritten(segs).ws \in {"", " "}

C2_Case ==
    /\ Parsed
    /\ ~LexFails(segs)
    /\ VersionPasses(segs)
    /\ Wrote(segs, TagP)
    /\ LastWritten(segs, TagP).val = <<>>

\* the items of the last h, s or t tag, the text of the last n tag
ListWritten(ds, tag) == IF Wrote(ds, tag) THEN LastWritten(ds, tag).list ELSE <<>>
NotesWritten(ds) == IF Wrote(ds, TagN) THEN LastWritten(ds, TagN).val ELSE <<>>

\* C2: an empty p tag revokes the key: ParseDKIM succeeds with isRevoked true
\* and publicKey empty whatever the k tag says (no key is decoded or measured),
\* the h, s, t and n tags are still parsed, and over all successful parses
\* isRevoked holds exactly when the p tag is present and empty, publicKey is
\* empty exactly when isRevoked holds.
C2_Revocation ==
    /\ C2_Case =>
        /\ Succeeded
        /\ result.rec[1].IsRevoked = TRUE
        /\ result.rec[1].PublicKey = <<>>
        /\ result.rec[1].HashAlgorithms = ListWritten(segs, TagH)
        /\ result.rec[1].Services = ListWritten(segs, TagS)
        /\ result.rec[1].Flags = ListWritten(segs, TagT)
        /\ result.rec[1].Notes = NotesWritten(segs)
    /\ (Parsed /\ Succeeded) =>
        /\ result.rec[1].IsRevoked
              <=> (Wrote(segs, TagP) /\ LastWritten(segs, TagP).val = <<>>)
        /\ (result.rec[1].PublicKey = <<>>) <=> result.rec[1].IsRevoked

\* a revoked record that lists two hash algorithms was parsed
C2_Witness ==
    /\ C2_Case
    /\ Wrote(segs, TagH)
    /\ Succeeded
    /\ Len(result.rec[1].HashAlgorithms) = 2

\* the case of C4: the record lexes, passes the version check and has no p tag
C4_Case ==
    /\ Parsed
    /\ ~LexFails(segs)
    /\ VersionPasses(segs)
    /\ ~Wrote(segs, TagP)

\* C4: when lexing succeeds and the version check passes, a record with no p
\* tag fails with MissingPublicKey and no record is returned, whatever other
\* tags it carries.
C4_MissingPublicKey == C4_Case => Failed("MissingPublicKey")

\* a record with a k tag and another optional tag, but no p tag, was parsed
C4_Witness ==
    /\ C4_Case
    /\ Wrote(segs, TagK)
    /\ \E tag \in {TagH, TagS, TagT, TagN} : Wrote(segs, tag)
    /\ result.err # <<>>

\* C5: when lexing succeeds, a v tag whose value is not exactly DKIM1 makes
\* ParseDKIM fail with UnsupportedVersion, even with a valid key in p; a record
\* with no v tag never fails with UnsupportedVersion.
C5_UnsupportedVersion ==
    (Parsed /\ ~LexFails(segs)) =>
        /\ (Wrote(segs, TagV) /\ LastWritten(segs, TagV).val # DKIM1)
              => Failed("UnsupportedVersion")
        /\ ~Wrote(segs, TagV) => ~Failed("UnsupportedVersion")

\* a record with v=DKIM2 and a valid RSA key of 1024 bits was parsed
C5_Witness ==
    /\ Parsed
    /\ ~LexFails(segs)
    /\ Wrote(segs, TagV)
    /\ LastWritten(segs, TagV).val # DKIM1
    /\ Wrote(segs, TagP)
    /\ KeyWritten(segs).cls = "rsa"
    /\ KeyWritten(segs).bits = 1024
    /\ KeyWritten(segs).ws = ""
    /\ result.err # <<>>

\* the last p tag is not empty and, read without white space, is base64 text
\* (every catalog value but the one that is not base64); it is written unbroken
\* or broken by spaces
KeyTextWritten(ds) ==
    /\ Wrote(ds, TagP)
    /\ LastWritten(ds, TagP).val # <<>>
    /\ KeyWritten(ds).cls # "notb64"
KeyTextPlain(ds) == KeyWritten(ds).ws \in {"", " "}

\* the case of C6: the record lexes, passes the version check and its last p
\* tag is not empty
C6_Case ==
    /\ Parsed
    /\ ~LexFails(segs)
    /\ VersionPasses(segs)
    /\ Wrote(segs, TagP)
    /\ LastWritten(segs, TagP).val # <<>>

\* C6: a non-empty p is decoded with all its internal white space removed:
\* ParseDKIM fails with InvalidBase64 exactly when p without its white space is
\* not standard base64, and the publicKey it stores contains no white space.
C6_WhitespaceStripped ==
    C6_Case =>
        /\ Failed("InvalidBase64") <=> (KeyWritten(segs).cls = "notb64")
        /\ Succeeded =>
              \A i \in 1..Len(result.rec[1].PublicKey) :
                  result.rec[1].PublicKey[i] \notin WhiteSpace

\* the case of C7: the record lexes, passes the version check, names key type
\* rsa or none, and its p is the base64 text of a well-formed RSA key
C7_Case ==
    /\ Parsed
    /\ ~LexFails(segs)
    /\ VersionPasses(segs)
    /\ KeyTypeRsa(segs)
    /\ KeyTextWritten(segs)
    /\ KeyTextPlain(segs)
    /\ KeyWritten(segs).cls = "rsa"

\* C7: for key type rsa, a well-formed RSA key fails with KeyTooShort when its
\* modulus has fewer than 1024 bits (1017 or 1023, say), and never when it has
\* 1024 bits or more.
C7_KeyTooShort ==
    C7_Case => (Failed("KeyTooShort") <=> KeyWritten(segs).bits < 1024)

\* the case of C8: the record lexes, passes the version check, its last k tag
\* reads ed25519 and its last p tag is base64 text
C8_Case ==
    /\ Parsed
    /\ ~LexFails(segs)
    /\ VersionPasses(segs)
    /\ Wrote(segs, TagK)
    /\ LastWritten(segs, TagK).val = Ed25519
    /\ KeyTextWritten(segs)
    /\ KeyTextPlain(segs)

\* C8: in a record that reaches the key check (it lexes and passes the version
\* check) with k = ed25519 and a non-empty base64 p, ParseDKIM succeeds with
\* keyType ed25519 if and only if p decodes to exactly 32 bytes; every other
\* decoded length fails with InvalidKeySize.
C8_Ed25519KeySize ==
    C8_Case =>
        IF KeyWritten(segs).len = 32
        THEN Succeeded /\ result.rec[1].KeyType = Ed25519
        ELSE Failed("InvalidKeySize")

\* a 32-byte key published with k=ed25519 was parsed
C8_Witness ==
    /\ C8_Case
    /\ KeyWritten(segs).len = 32
    /\ Succeeded

\* C9: keyType comes from the k tag and is rsa only by default: a record that
\* lexes, passes the version check, has a non-empty base64 p and a k tag that
\* reads neither rsa nor ed25519 (the empty value included) fails with
\* UnsupportedKeyType; on every successful parse keyType is rsa or ed25519, is
\* the value of the k tag when there is one, and is rsa when there is none.
C9_KeyType ==
    (Parsed /\ ~LexFails(segs) /\ VersionPasses(segs)) =>
        /\ (/\ KeyTextWritten(segs)
            /\ KeyTextPlain(segs)
            /\ Wrote(segs, TagK)
            /\ LastWritten(segs, TagK).val \notin {Rsa, Ed25519})
              => Failed("UnsupportedKeyType")
        /\ Succeeded =>
              /\ result.rec[1].KeyType \in {Rsa, Ed25519}
              /\ Wrote(segs, TagK) => result.rec[1].KeyType = LastWritten(segs, TagK).val
              /\ ~Wrote(segs, TagK) => result.rec[1].KeyType = Rsa

\* the names written as tags
NamesWritten(ds) ==
    {Catalog[ds[i]].key : i \in {j \in 1..Len(ds) : Catalog[ds[j]].form = "tag"}}

\* ds without the tags that a later segment writes again
LastOnly(ds) ==
    LET keep == {i \in 1..Len(ds) :
                    Catalog[ds[i]].form = "tag" =>
                        \A j \in Written(ds, Catalog[ds[i]].key) : j <= i}
        at == Ascending(keep)
    IN [k \in 1..Len(at) |-> ds[at[k]]]

\* C10: last tag wins: when lexing succeeds, the tag map binds each name
\* written to the trimmed value of the last segment carrying it (everything
\* after that segment's first '='), earlier duplicates never cause an error,
\* and ParseDKIM answers as it does for the record without the earlier
\* duplicates.
C10_LastTagWins ==
    /\ (pc = "lexed" /\ ~LexFails(segs)) =>
        /\ lexed.err = <<>>
        /\ DOMAIN lexed.params = NamesWritten(segs)
        /\ \A tag \in NamesWritten(segs) : lexed.params[tag] = LastWritten(segs, tag).val
    /\ (Parsed /\ ~LexFails(segs)) => result = ParseDKIM(Render(LastOnly(segs)))

\* a record with two p tags of different values was lexed
C10_Witness ==
    /\ pc = "lexed"
    /\ ~LexFails(segs)
    /\ Len(segs) = 2
    /\ Written(segs, TagP) = {1, 2}
    /\ Catalog[segs[1]].val # Catalog[segs[2]].val
    /\ lexed.err = <<>>
    /\ lexed.params[TagP] = Catalog[segs[2]].val

\* whether the parser of the data source src rejects the record text rec
Rejects(src, rec) ==
    IF src = "dkim" THEN ParseDKIM(rec).err # <<>>
    ELSE IF src = "spf" THEN ~ParseSPF(rec).ok
    ELSE ~DmarcParse(rec).ok

\* the error diagnostics of the response: the plan fails when there is one
ErrorCount == Cardinality({i \in 1..Len(diags) : diags[i].severity = "error"})

\* C3: for each of the three data sources, ValidateConfig adds exactly one
\* error diagnostic when the record value is known and its parser rejects it,
\* and none when the parser accepts it or the value is unknown; so the plan
\* fails if and only if a known record is invalid.
C3_ValidateConfig ==
    pc = "validated" =>
        IF ~unknown /\ Rejects(source, record)
        THEN Len(diags) = 1 /\ ErrorCount = 1
        ELSE diags = <<>>

\* the DMARC data source validated a known record with a misspelt policy and
\* reported it
C3_Witness ==
    /\ pc = "validated"
    /\ source = "dmarc"
    /\ ~unknown
    /\ record = <<"v=DMARC1", "p=rejectt", "rua=mailto:dmarc@example.com">>
    /\ ErrorCount = 1


-----------------------------------------------------------------------------
(* The SPF classifier, compared with the mechanisms the record was written *)
(* with.                                                                    *)

\* the mechanism terms of the configured record, in the order written
MechanismTerms == SelectSeq(segs, LAMBDA t : SpfTerms[t].kind = "mechanism")

\* the SPF data source read an accepted record
SPFReadDone == pc = "read" /\ source = "spf" /\ state # <<>>

Qualifiers == {"+", "-", "~", "?"}

\* the qualifier the canonical text str starts with, "+" when it starts with none
QualifierOf(str) == IF str # <<>> /\ str[1] \in Qualifiers THEN str[1] ELSE "+"

\* the type of the mechanisms of each variant the classifier knows
TypeNames ==
    [MechanismAll |-> "all", MechanismInclude |-> "include", MechanismA |-> "a",
     MechanismMX |-> "mx", MechanismIp4 |-> "ip4", MechanismIp6 |-> "ip6",
     MechanismExists |-> "exists", MechanismPTR |-> "ptr"]

\* the value the classified mechanism c must have for the mechanism m, the
\* value of a mechanism of no known variant being `other`
ValueAsSpecified(m, c, other) ==
    IF m.variant \notin DOMAIN TypeNames THEN c.type = "unknown" /\ c.value = other
    ELSE /\ c.type = TypeNames[m.variant]
         /\ c.value = (IF c.type = "all" THEN <<>>
                       ELSE IF c.type \in {"ip4", "ip6"} THEN m.Net
                       ELSE m.DomainSpec)

\* the text of the mechanism itself: the canonical text of the directive
\* without its qualifier (RFC 7208: directive = [ qualifier ] mechanism)
MechanismText(m) == IF m.str # <<>> /\ m.str[1] \in Qualifiers THEN Tail(m.str) ELSE m.str

\* C11: the classified list has the length and order of the mechanism list
\* the parser returned; each mechanism yields one (qualifier, type, value)
\* triple whose qualifier is the first character of its canonical text if that
\* is one of + - ~ ? and "+" otherwise, and whose (type, value) is (all, "")
\* for all, (name, domainSpec) for include/exists/ptr and for a/mx ("" when
\* none), (name, CIDR text) for ip4/ip6; a mechanism of any other shape yields
\* type "unknown" with the mechanism's text as value, and the record is still
\* read.
C11_Classification ==
    SPFReadDone =>
        LET ms == MechanismTerms
            cs == state[1].Mechanisms
        IN /\ Len(cs) = Len(ms)
           /\ \A i \in 1..Len(ms) :
                LET m == SpfTerms[ms[i]].mech
                IN /\ DOMAIN cs[i] = {"qualifier", "type", "value"}
                   /\ cs[i].qualifier = QualifierOf(m.str)
                   /\ ValueAsSpecified(m, cs[i], MechanismText(m))

\* a record with an explicit qualifier on a known mechanism and a mechanism of
\* a shape the classifier does not know was read
C11_Witness ==
    /\ SPFReadDone
    /\ record = <<"v=spf1", "?mx", "-x:e.x">>
    /\ Len(state[1].Mechanisms) = 2
    /\ state[1].Mechanisms[1] = Classified("?", "mx", <<>>)
    /\ state[1].Mechanisms[2] = Classified("-", "unknown", <<"x", ":">> \o DomainE)


\* the positions of the redirect modifier in the configured record
RedirectTerms == {i \in 1..Len(segs) : SpfTerms[segs[i]].kind = "redirect"}

\* the record text without the term at position i
WithoutTerm(rec, i) == SubSeq(rec, 1, i - 1) \o SubSeq(rec, i + 1, Len(rec))

\* the classified mechanisms that count towards the DNS lookup limit
LookupMechanisms(ms) ==
    {i \in 1..Len(ms) : ms[i].type \in {"include", "a", "mx", "ptr", "exists"}}

\* C12: for every accepted SPF record Read succeeds and sets dnsLookupCount to
\* the number of classified mechanisms of type include, a, mx, ptr or exists,
\* plus one if the record has a redirect modifier (all, ip4, ip6 and unknown
\* do not count); the count is one more than that of the same record without
\* its redirect; and it is stored as computed, also above ten.
C12_DnsLookupCount ==
    (pc = "read" /\ source = "spf" /\ ParseSPF(record).ok) =>
        /\ diags = <<>>
        /\ state # <<>>
        /\ state[1].DNSLookupCount =
               Cardinality(LookupMechanisms(state[1].Mechanisms))
                   + (IF RedirectTerms # {} THEN 1 ELSE 0)
        /\ \A i \in RedirectTerms :
               state[1].DNSLookupCount =
                   SPFState(WithoutTerm(record, i),
                            ParseSPF(WithoutTerm(record, i)).parsed).DNSLookupCount + 1

\* a record with an a mechanism, a redirect and ten includes was read: twelve
\* lookups, reported as such
C12_Witness ==
    /\ SPFReadDone
    /\ Len(segs) = 13
    /\ RedirectTerms # {}
    /\ Cardinality(LookupMechanisms(state[1].Mechanisms)) = 11
    /\ state[1].DNSLookupCount = 12
    /\ state[1].Redirect = <<DomainE>>


\* the error the parser of the data source src returns for the record text rec
ParserError(src, rec) ==
    IF src = "dkim" THEN ParseDKIM(rec).err
    ELSE IF src = "spf" THEN ParseSPF(rec).err
    ELSE DmarcParse(rec).err

\* C14: every error diagnostic a data source emits for a rejected record, from
\* ValidateConfig or from Read, for DKIM, SPF and DMARC alike, contains the
\* parser's error message and the original record text.
C14_DiagnosticsQuoteRecord ==
    \A i \in 1..Len(diags) :
        diags[i].severity = "error" =>
            /\ <<diags[i].err>> = ParserError(source, record)
            /\ diags[i].record = <<record>>


-----------------------------------------------------------------------------
(* The tag lexer's errors.                                                  *)

\* the positions of the segments the lexer cannot take
Offending(ds) ==
    {i \in 1..Len(ds) : Malformed(Catalog[ds[i]]) \/ Nameless(Catalog[ds[i]])}

\* the first of them
FirstOffending(ds) == Catalog[ds[CHOOSE i \in Offending(ds) : \A j \in Offending(ds) : i <= j]]

\* the segments empty after trimming
Skipped(ds) == {i \in 1..Len(ds) : Catalog[ds[i]].form = "bare" /\ Catalog[ds[i]].val = <<>>}

\* the lexer's answer: no error and the tags written when no segment offends
\* (empty segments are skipped, names and values are trimmed, the value is
\* what follows the first '='); otherwise no map and the error of the first
\* offending segment, MalformedTag exactly when it has no '=', EmptyTagName
\* exactly when its name is empty
LexerAnswer ==
    pc = "lexed" =>
        IF Offending(segs) = {}
        THEN /\ lexed.err = <<>>
             /\ DOMAIN lexed.params = NamesWritten(segs)
             /\ \A tag \in NamesWritten(segs) :
                    lexed.params[tag] = LastWritten(segs, tag).val
        ELSE /\ Len(lexed.err) = 1
             /\ lexed.params = EmptyMap
             /\ lexed.err[1].kind \in {"MalformedTag", "EmptyTagName"}
             /\ lexed.err[1].kind = "MalformedTag" <=> Malformed(FirstOffending(segs))
             /\ lexed.err[1].kind = "EmptyTagName" <=> Nameless(FirstOffending(segs))
             /\ Malformed(FirstOffending(segs)) => lexed.err[1].text = FirstOffending(segs).val

\* ParseDKIM fails with the lexer's error, of the lexer's kind and text, and
\* with `wrapped` telling whether it carries ParseDKIM's prefix
LexerErrorReturned(wrapped) ==
    (Parsed /\ Offending(segs) # {}) =>
        /\ result.rec = <<>>
        /\ Len(result.err) = 1
        /\ result.err[1].kind =
               (IF Malformed(FirstOffending(segs)) THEN "MalformedTag" ELSE "EmptyTagName")
        /\ result.err[1].text =
               (IF Malformed(FirstOffending(segs)) THEN FirstOffending(segs).val ELSE <<>>)
        /\ result.err[1].wrapped = wrapped

\* C15 (as amended): the tag lexer splits the text on ';', skips segments that
\* are empty after trimming, splits each remaining segment on its first '='
\* and trims key and value independently; it fails with MalformedTag if and
\* only if the first offending segment contains no '=', and with EmptyTagName
\* if and only if that segment's key is empty after trimming; ParseDKIM
\* returns these lexer errors wrapped: the same kind and text, behind the
\* prefix "failed to parse DKIM record: ".
C15_LexerErrors == LexerAnswer /\ LexerErrorReturned(TRUE)

\* C15: as above, but ParseDKIM propagates the lexer errors unchanged.
C15_LexerErrorsUnchanged == LexerAnswer /\ LexerErrorReturned(FALSE)

\* a record with an empty segment, then a segment without '=', was lexed: the
\* empty one was skipped and the other reported
C15_Witness ==
    /\ pc = "lexed"
    /\ Len(segs) = 2
    /\ 1 \in Skipped(segs)
    /\ Malformed(Catalog[segs[2]])
    /\ lexed.err # <<>>
    /\ lexed.err[1].kind = "MalformedTag"
    /\ lexed.err[1].text = <<"j", "u", "n", "k">>


-----------------------------------------------------------------------------
(* The order of the rules.                                                  *)

\* the key-specific rule a key written for key type rsa breaks, "none" when
\* it breaks none
RsaRule(kd) ==
    IF kd.cls = "rsa" THEN (IF kd.bits < 1024 THEN "KeyTooShort" ELSE "none")
    ELSE IF kd.cls = "ed25519" /\ kd.enc = "pkix" THEN "KeyAlgorithmMismatch"
    ELSE "InvalidKeyEncoding"

\* the rule a key written for key type ed25519 breaks
Ed25519Rule(kd) == IF kd.len = 32 THEN "none" ELSE "InvalidKeySize"

\* the first rule the record written breaks, in the order lexing, version,
\* presence of p, base64 decoding, key type, key-specific validation; "none"
\* when it breaks none (a record with an empty p is revoked: no key rule
\* applies to it)
FirstViolated(ds) ==
    IF Offending(ds) # {}
    THEN (IF Malformed(FirstOffending(ds)) THEN "MalformedTag" ELSE "EmptyTagName")
    ELSE IF ~VersionPasses(ds) THEN "UnsupportedVersion"
    ELSE IF ~Wrote(ds, TagP) THEN "MissingPublicKey"
    ELSE IF LastWritten(ds, TagP).val = <<>> THEN "none"
    ELSE IF KeyWritten(ds).cls = "notb64" THEN "InvalidBase64"
    ELSE IF Wrote(ds, TagK) /\ LastWritten(ds, TagK).val \notin {Rsa, Ed25519}
    THEN "UnsupportedKeyType"
    ELSE IF Wrote(ds, TagK) /\ LastWritten(ds, TagK).val = Ed25519
    THEN Ed25519Rule(KeyWritten(ds))
    ELSE RsaRule(KeyWritten(ds))

\* the segments that are not h, s, t or n tags
RECURSIVE WithoutOptional(_)
WithoutOptional(ds) ==
    IF ds = <<>> THEN <<>>
    ELSE (IF Catalog[Head(ds)].form = "tag" /\ Catalog[Head(ds)].key \in {TagH, TagS, TagT, TagN}
          THEN <<>> ELSE <<Head(ds)>>) \o WithoutOptional(Tail(ds))

\* the answer is the error of the first rule broken and no record, or a
\* record and no error; the h, s, t and n tags decide neither
RuleOrder ==
    /\ result.rec = <<>> <=> result.err # <<>>
    /\ Len(result.rec) + Len(result.err) = 1
    /\ IF FirstViolated(segs) = "none" THEN Succeeded ELSE Failed(FirstViolated(segs))
    /\ ~LexFails(segs) => result.err = ParseDKIM(Render(WithoutOptional(segs))).err

\* the records that meet the faults of C6, C7 and C9: a p broken by a tab, an
\* RSA key of 1017 to 1023 bits, an empty k value
MeetsKnownFault(ds) ==
    \/ Wrote(ds, TagP) /\ KeyWritten(ds).ws = "\t"
    \/ Wrote(ds, TagP) /\ KeyWritten(ds).cls = "rsa" /\ KeyWritten(ds).bits \in 1017..1023
    \/ Wrote(ds, TagK) /\ LastWritten(ds, TagK).val = <<>>

\* C16: ParseDKIM applies its rules in the order lexing, version, presence of
\* p, base64 decoding, key type, key-specific validation, and always returns
\* the error of the first rule violated together with no record, never a
\* partial result; malformed h, s, t or n content never causes a failure.
C16_RuleOrder == Parsed => RuleOrder

\* the same for the records that meet none of the faults of C6, C7 and C9
RuleOrderElsewhere == (Parsed /\ ~MeetsKnownFault(segs)) => RuleOrder


-----------------------------------------------------------------------------
(* The two encodings of an RSA key.                                         *)

\* the case of C17: the record lexes, passes the version check, names key
\* type rsa or none, and its p was decoded (base64 text, not broken by a tab)
C17_Case ==
    /\ Parsed
    /\ ~LexFails(segs)
    /\ VersionPasses(segs)
    /\ KeyTypeRsa(segs)
    /\ KeyTextWritten(segs)
    /\ KeyWritten(segs).ws # "\t"

\* what the bytes written are to the two decoders
IsPkix(kd) == kd.enc = "pkix" /\ kd.cls \in {"rsa", "ed25519"}
IsPkcs1(kd) == kd.enc = "pkcs1" /\ kd.cls = "rsa"

\* C17: for key type rsa the decoded bytes are read as a PKIX public-key-info
\* structure first and as a PKCS#1 RSA key only if that fails: a key in either
\* encoding is taken, bytes that are neither fail with InvalidKeyEncoding, and
\* a PKIX structure holding a key of another algorithm (Ed25519) fails with
\* KeyAlgorithmMismatch, the PKCS#1 reading not being tried.
C17_RsaEncodings ==
    C17_Case =>
        LET kd == KeyWritten(segs)
        IN /\ Failed("InvalidKeyEncoding") <=> (~IsPkix(kd) /\ ~IsPkcs1(kd))
           /\ Failed("KeyAlgorithmMismatch") <=> (IsPkix(kd) /\ kd.cls # "rsa")
           /\ (kd.cls = "rsa" /\ kd.bits >= 1024) =>
                  Succeeded /\ result.rec[1].KeyType = Rsa

\* an Ed25519 key in a PKIX structure, published without a k tag, was refused
\* as a key of the wrong algorithm
C17_Witness ==
    /\ C17_Case
    /\ ~Wrote(segs, TagK)
    /\ KeyWritten(segs).cls = "ed25519"
    /\ KeyWritten(segs).enc = "pkix"
    /\ Failed("KeyAlgorithmMismatch")

=============================================================================
